---- MODULE Spec2Model ----
(***************************************************************************)
(* The agent-to-agent message broker of src/MessageQue.py: Message,        *)
(* MessageBroker (a PriorityQueue and a send history per agent id) and     *)
(* MessageQueueAgent (the polling consumption loop).                       *)
(*                                                                         *)
(* Message objects are mutable and shared by reference in the source, so   *)
(* the model keeps an object store `msgs` and lets mailboxes and histories *)
(* hold references into it.                                                *)
(***************************************************************************)
EXTENDS Integers, Sequences, FiniteSets, TLC

VARIABLES
    msgs,             \* the Message objects alive: reference -> fields
    agent_queues,     \* MessageBroker.agent_queues: agent id -> heap array of references
    message_history,  \* MessageBroker.message_history: agent id -> list of references
    agents,           \* the MessageQueueAgent objects: index -> [agent_id, running]
    tasks,            \* the start_listening tasks: index -> [agent, pc]
    held,             \* the Message object an outside caller keeps a handle on (or NoRef)
    sends,            \* number of budgeted send_message calls made so far (bounds the model)
    regs,             \* number of register_agent calls made so far (bounds the model)
    arrival,          \* observer: per mailbox, the pending references in the order they were put
    assigned,         \* observer: per live object, the uuid its most recent send_message drew
    sendLog,          \* observer: per agent, the references it passed to send_message since it registered
    last              \* observer: the last call made, its arguments and what it returned

vars == <<msgs, agent_queues, message_history, agents, tasks, held, sends, regs, arrival, assigned, sendLog, last>>

-----------------------------------------------------------------------------
(* Bounds of the model *)

\* send_message calls explored in one behaviour of Spec
MaxSends == 2
\* send_message calls explored in one behaviour of MailboxSpec
MaxPuts == 4
\* register_agent calls explored in one behaviour
MaxRegs == 3
\* send_request calls and task assignments explored in one behaviour of
\* AgentSpec, RequestSpec and TaskSpec
MaxAgentSends == 2
\* messages of unregistered senders pending at any one time
MaxNotes == 1
\* priorities are drawn from 1..MaxPriority
MaxPriority == 2
\* agent objects constructed in one behaviour of LoopsSpec
MaxAgents == 2
\* loop tasks created in one behaviour of LoopsSpec
MaxLoops == 2

-----------------------------------------------------------------------------
(* Values *)

AgentIds == {"manager", "worker1", "worker2"}
ALL == "ALL"
MessageType == {"request", "response", "broadcast", "task_assignment"}
Priorities == 1..MaxPriority
DefaultPriority == 1

\* Python's None, for a missing return value or a missing message
None == [none |-> TRUE]
\* no reference
NoRef == 0
\* Message.id as a caller constructs it: "" (0) or some string of its own (-1)
CallerIds == {0, -1}
\* reply_to = None
NoReply == 0

Message(id, sender, receiver, message_type, content, priority, reply_to) ==
    [id |-> id, sender |-> sender, receiver |-> receiver,
     message_type |-> message_type, content |-> content,
     priority |-> priority, reply_to |-> reply_to]

-----------------------------------------------------------------------------
(* Message.__lt__ and the binary heap of queue.PriorityQueue (heapq)        *)
(* A heap is a sequence of references; index i here is index i-1 in Python. *)

MsgLtMin(store, x, y) == store[x].priority < store[y].priority

\* Message.__lt__: self.priority > other.priority
MsgLt(store, x, y) == store[x].priority > store[y].priority

\* heapq._siftdown(heap, startpos, pos) with newitem = heap[pos]
RECURSIVE SiftDown(_, _, _, _, _)
SiftDown(store, heap, startpos, pos, newitem) ==
    IF pos > startpos /\ MsgLt(store, newitem, heap[pos \div 2])
    THEN SiftDown(store, [heap EXCEPT ![pos] = heap[pos \div 2]], startpos, pos \div 2, newitem)
    ELSE [heap EXCEPT ![pos] = newitem]

\* heapq._siftup(heap, pos) with newitem = heap[pos]: bubble the smaller child up
\* until a leaf is hit, then sift newitem down from there
RECURSIVE SiftUp(_, _, _, _)
SiftUp(store, heap, pos, newitem) ==
    LET childpos == 2 * pos
        rightpos == childpos + 1
        endpos   == Len(heap)
    IN  IF childpos <= endpos
        THEN LET c == IF rightpos <= endpos /\ ~MsgLt(store, heap[childpos], heap[rightpos])
                      THEN rightpos ELSE childpos
             IN  SiftUp(store, [heap EXCEPT ![pos] = heap[c]], c, newitem)
        ELSE SiftDown(store, heap, 1, pos, newitem)

\* PriorityQueue.put -> heapq.heappush
HeapPush(store, heap, item) ==
    SiftDown(store, Append(heap, item), 1, Len(heap) + 1, item)

\* PriorityQueue.get_nowait -> heapq.heappop, on a non-empty heap: the item returned
HeapTop(heap) == heap[1]

\* ... and the heap left behind
HeapPop(store, heap) ==
    LET lastelt == heap[Len(heap)]
        rest    == SubSeq(heap, 1, Len(heap) - 1)
    IN  IF rest # <<>>
        THEN SiftUp(store, [rest EXCEPT ![1] = lastelt], 1, lastelt)
        ELSE rest

-----------------------------------------------------------------------------
(* Helpers on sequences and the object store *)

\* F(v) with v computed once: a local variable that holds v
With(v, F(_)) == CHOOSE y \in {F(x) : x \in {v}} : TRUE

Range(s) == {s[i] : i \in DOMAIN s}

\* s without its first occurrence of x
RECURSIVE RemoveFirst(_, _)
RemoveFirst(s, x) ==
    IF s = <<>> THEN <<>>
    ELSE IF Head(s) = x THEN Tail(s)
    ELSE <<Head(s)>> \o RemoveFirst(Tail(s), x)

\* Which fresh reference and which fresh uuid a message gets is immaterial. The
\* model draws the least free one, from the odd numbers for a message whose
\* sender is registered (it stays in that sender's history) and from the even
\* numbers otherwise, so that short-lived messages do not shift the names of
\* the lasting ones.
Names(lasting, n) == {IF lasting THEN 2 * k - 1 ELSE 2 * k : k \in 1..n}

Least(S) == CHOOSE x \in S : \A y \in S : x <= y

\* a reference not in use: Python allocates a new object
NewRef(store, lasting) ==
    Least(Names(lasting, Cardinality(DOMAIN store) + 1) \ DOMAIN store)

\* the ids some live object carries, as its id or as its reply_to
UsedIds(store) == {store[r].id : r \in DOMAIN store} \cup {store[r].reply_to : r \in DOMAIN store}

\* str(uuid.uuid4()): an id no live message carries
Uuid4(store, lasting) ==
    Least(Names(lasting, 2 * Cardinality(DOMAIN store) + 1) \ UsedIds(store))

\* f restricted to the keys in S
Restrict(f, S) == [x \in (DOMAIN f) \cap S |-> f[x]]

-----------------------------------------------------------------------------
(* MessageBroker. A broker state is a record [m, q, h]: the object store,  *)
(* agent_queues and message_history. Each method returns the new state     *)
(* with its return value `ret` and whether it raised, `exc`.               *)

Broker(m, q, h) == [m |-> m, q |-> q, h |-> h]

Returned(B, ret, exc) == [m |-> B.m, q |-> B.q, h |-> B.h, ret |-> ret, exc |-> exc]

\* MessageBroker.__init__
EmptyBroker == Broker(<<>>, <<>>, <<>>)

\* dict[key] = value
DictSet(d, key, value) == [k \in (DOMAIN d) \cup {key} |-> IF k = key THEN value ELSE d[k]]

\* MessageBroker.register_agent
register_agent(B, agent_id) ==
    Returned(Broker(B.m, DictSet(B.q, agent_id, <<>>), DictSet(B.h, agent_id, <<>>)),
             None, FALSE)

AssignIdIfEmpty(m, r, uuid) == IF m[r].id = 0 THEN [m EXCEPT ![r].id = uuid] ELSE m

\* message.id = str(uuid.uuid4()): the caller's object is written in place
AssignId(m, r, uuid) == [m EXCEPT ![r].id = uuid]

RecipientsWithSender(q, message) ==
    IF message.receiver = ALL THEN DOMAIN q
    ELSE IF message.receiver \in DOMAIN q THEN {message.receiver} ELSE {}

RecipientsOrEveryone(q, message) ==
    IF message.receiver = ALL \/ message.receiver \notin DOMAIN q
    THEN {agent_id \in DOMAIN q : agent_id # message.sender}
    ELSE {message.receiver}

RecipientsBounced(q, message) ==
    IF message.receiver = ALL
    THEN {agent_id \in DOMAIN q : agent_id # message.sender}
    ELSE IF message.receiver \in DOMAIN q THEN {message.receiver}
    ELSE {message.sender} \cap DOMAIN q

RecipientsOfRegisteredSender(q, message) ==
    IF message.sender \notin DOMAIN q THEN {}
    ELSE IF message.receiver = ALL
    THEN {agent_id \in DOMAIN q : agent_id # message.sender}
    ELSE IF message.receiver \in DOMAIN q THEN {message.receiver} ELSE {}

\* the mailboxes send_message puts the message into
Recipients(q, message) ==
    IF message.receiver = ALL
    THEN {agent_id \in DOMAIN q : agent_id # message.sender}
    ELSE IF message.receiver \in DOMAIN q THEN {message.receiver} ELSE {}

SaveHistoryInFront(h, message, r) ==
    IF message.sender \in DOMAIN h
    THEN [h EXCEPT ![message.sender] = <<r>> \o @]
    ELSE h

SaveHistoryAlways(h, message, r) ==
    [k \in (DOMAIN h) \cup {message.sender} |->
        IF k = message.sender
        THEN (IF k \in DOMAIN h THEN Append(h[k], r) ELSE <<r>>)
        ELSE h[k]]

\* "Save message history"
SaveHistory(h, message, r) ==
    IF message.sender \in DOMAIN h
    THEN [h EXCEPT ![message.sender] = Append(@, r)]
    ELSE h

\* MessageBroker.send_message(message), message being the object at reference r
\* and uuid the value uuid.uuid4() returns; it returns nothing
send_message(B, r, uuid) ==
    With(B, LAMBDA B0 : With(AssignId(B0.m, r, uuid), LAMBDA m1 :
    LET message == m1[r]
        q1 == [agent_id \in DOMAIN B0.q |->
                  IF agent_id \in Recipients(B0.q, message)
                  THEN HeapPush(m1, B0.q[agent_id], r)
                  ELSE B0.q[agent_id]]
        h1 == SaveHistory(B0.h, message, r)
    IN  Returned(Broker(m1, q1, h1), None, FALSE)))

receive_messageUrgentOnly(B, agent_id) ==
    IF agent_id \in DOMAIN B.q /\ B.q[agent_id] # <<>>
          /\ B.m[HeapTop(B.q[agent_id])].priority > DefaultPriority
    THEN Returned(Broker(B.m, [B.q EXCEPT ![agent_id] = HeapPop(B.m, @)], B.h),
                  HeapTop(B.q[agent_id]), FALSE)
    ELSE Returned(B, NoRef, FALSE)

receive_messageRaising(B, agent_id) ==
    IF agent_id \in DOMAIN B.q /\ B.q[agent_id] # <<>>
    THEN Returned(Broker(B.m, [B.q EXCEPT ![agent_id] = HeapPop(B.m, @)], B.h),
                  HeapTop(B.q[agent_id]), FALSE)
    ELSE Returned(B, NoRef, TRUE)

receive_messagePeeking(B, agent_id) ==
    IF agent_id \in DOMAIN B.q /\ B.q[agent_id] # <<>>
    THEN Returned(B, HeapTop(B.q[agent_id]), FALSE)
    ELSE Returned(B, NoRef, FALSE)

\* MessageBroker.receive_message(agent_id): ret is the reference popped, or NoRef
\* for None; the KeyError of an unregistered id is swallowed by the bare except
receive_message(B, agent_id) ==
    IF agent_id \in DOMAIN B.q /\ B.q[agent_id] # <<>>
    THEN Returned(Broker(B.m, [B.q EXCEPT ![agent_id] = HeapPop(B.m, @)], B.h),
                  HeapTop(B.q[agent_id]), FALSE)
    ELSE Returned(B, NoRef, FALSE)

-----------------------------------------------------------------------------
(* MessageQueueAgent *)

\* what the llm collaborator does when called: it returns a text or it raises
LLMTexts == {<<"pong">>, <<"done">>}
LLMOutcomes == {[raised |-> FALSE, text |-> t] : t \in LLMTexts}
                   \cup {[raised |-> TRUE, text |-> <<>>]}

\* the prompt process_request builds
Prompt(agent_id, request) ==
    <<"You are agent ", agent_id, ". You received this request: ">> \o request
        \o <<" Please provide a helpful response:">>

\* MessageQueueAgent.process_request: llm is what the collaborator does with the prompt
process_request(agent_id, request, llm) ==
    [raised |-> llm.raised, text |-> llm.text, prompt |-> Prompt(agent_id, request)]

\* f"Task completed: {task}. Result: {result}"
CompletionContent(task, result) == <<"Task completed: ">> \o task \o <<". Result: ">> \o result

\* the result of a handler: the broker, whether it raised, the references it sent
Handled(B, exc, sent) == [m |-> B.m, q |-> B.q, h |-> B.h, exc |-> exc, sent |-> sent]

\* message = Message(id="", ...); self.broker.send_message(message)
SendFresh(B, sender, receiver, message_type, content, priority, reply_to) ==
    With(NewRef(B.m, sender \in DOMAIN B.h), LAMBDA r :
    With(DictSet(B.m, r, Message(0, sender, receiver, message_type, content,
                                      priority, reply_to)), LAMBDA m0 :
    With(send_message(Broker(m0, B.q, B.h), r, Uuid4(m0, sender \in DOMAIN B.h)), LAMBDA R :
       Handled(R, R.exc, <<r>>))))

ReplyToSelf(B, agent_id, message, content) ==
    SendFresh(B, agent_id, agent_id, "response", content, DefaultPriority, message.id)

ReplyUncorrelated(B, agent_id, message, content) ==
    SendFresh(B, agent_id, message.sender, "response", content, DefaultPriority, NoReply)

ReplyAsRequest(B, agent_id, message, content) ==
    SendFresh(B, agent_id, message.sender, "request", content, DefaultPriority, message.id)

\* handle_message, REQUEST branch, once process_request has returned `content`
Reply(B, agent_id, message, content) ==
    SendFresh(B, agent_id, message.sender, "response", content, DefaultPriority, message.id)

AnnounceToSender(B, agent_id, task, result) ==
    SendFresh(B, agent_id, agent_id, "broadcast", CompletionContent(task, result),
              DefaultPriority, NoReply)

AnnounceTaskOnly(B, agent_id, task, result) ==
    SendFresh(B, agent_id, ALL, "broadcast", <<"Task completed: ">> \o task,
              DefaultPriority, NoReply)

\* execute_task once process_request has returned `result`: "Broadcast task completion"
Announce(B, agent_id, task, result) ==
    SendFresh(B, agent_id, ALL, "broadcast", CompletionContent(task, result),
              DefaultPriority, NoReply)

execute_taskReportingFailure(B, agent_id, task, llm) ==
    LET result == process_request(agent_id, <<"Execute this task: ">> \o task, llm)
    IN  IF result.raised THEN Announce(B, agent_id, task, <<"failed">>)
        ELSE Announce(B, agent_id, task, result.text)

\* MessageQueueAgent.execute_task
execute_task(B, agent_id, task, llm) ==
    LET result == process_request(agent_id, <<"Execute this task: ">> \o task, llm)
    IN  IF result.raised THEN Handled(B, TRUE, <<>>)
        ELSE Announce(B, agent_id, task, result.text)

handle_messageAcknowledging(B, agent_id, r, llm) ==
    LET message == B.m[r]
    IN  IF message.message_type = "request"
        THEN LET response_content == process_request(agent_id, message.content, llm)
             IN  IF response_content.raised THEN Handled(B, TRUE, <<>>)
                 ELSE Reply(B, agent_id, message, response_content.text)
        ELSE IF message.message_type = "task_assignment"
        THEN execute_task(B, agent_id, message.content, llm)
        ELSE Reply(B, agent_id, message, <<"ack">>)

\* MessageQueueAgent.handle_message on the message at reference r
handle_message(B, agent_id, r, llm) ==
    LET message == B.m[r]
    IN  IF message.message_type = "request"
        THEN LET response_content == process_request(agent_id, message.content, llm)
             IN  IF response_content.raised THEN Handled(B, TRUE, <<>>)
                 ELSE Reply(B, agent_id, message, response_content.text)
        ELSE IF message.message_type = "task_assignment"
        THEN execute_task(B, agent_id, message.content, llm)
        ELSE Handled(B, FALSE, <<>>)

-----------------------------------------------------------------------------
(* State *)

TheBroker == Broker(msgs, agent_queues, message_history)

\* the references something still points to; the rest is garbage
Referenced(q, h, roots, arr, log) ==
    UNION {Range(q[a]) : a \in DOMAIN q} \cup UNION {Range(h[a]) : a \in DOMAIN h}
    \cup UNION {Range(arr[a]) : a \in DOMAIN arr} \cup UNION {Range(log[a]) : a \in DOMAIN log}
    \cup (roots \ {NoRef})

\* the observer `arrival` after the references in `put` were sent, taking the
\* mailboxes from q0 to q1
ArrivalAfterPut(arr, q0, q1, put) ==
    [a \in DOMAIN q1 |->
        IF a \in DOMAIN q0 /\ Len(q1[a]) > Len(q0[a])
        THEN arr[a] \o put ELSE arr[a]]

\* the observer `sendLog` after `sender` passed the references in `put` to send_message
LogAfterSend(log, sender, put) ==
    IF sender \in DOMAIN log THEN [log EXCEPT ![sender] = @ \o put] ELSE log

\* the observer `assigned` after the references in `put` were sent
AssignedAfterSend(asg, m, put) ==
    [r \in (DOMAIN asg) \cup Range(put) |-> IF r \in Range(put) THEN m[r].id ELSE asg[r]]

Snapshot(m, r) == IF r # NoRef THEN m[r] ELSE None

LastCall(op, agent, r, msg, ret, exc, callerId, uuid) ==
    [op |-> op, agent |-> agent, ref |-> r, msg |-> msg, ret |-> ret, exc |-> exc,
     callerId |-> callerId, uuid |-> uuid, sentRefs |-> <<>>, sent |-> <<>>, out |-> <<>>,
     task |-> 0]

\* the observer `last` after one iteration of an agent's loop, run by task
\* number task, that dequeued ret: whether the collaborator raised, the text it
\* returned if it was called, the messages the agent sent
LastIteration(task, agent, r, ret, exc, out, sentRefs, sent) ==
    [op |-> "iterate", agent |-> agent, ref |-> r, msg |-> ret, ret |-> ret, exc |-> exc,
     callerId |-> 0, uuid |-> 0, sentRefs |-> sentRefs, sent |-> sent, out |-> out,
     task |-> task]

\* MessageBroker(): no agent registered, nothing sent
Init ==
    /\ msgs = EmptyBroker.m
    /\ agent_queues = EmptyBroker.q
    /\ message_history = EmptyBroker.h
    /\ agents = <<>>
    /\ tasks = <<>>
    /\ held = NoRef
    /\ sends = 0
    /\ regs = 0
    /\ arrival = <<>>
    /\ assigned = <<>>
    /\ sendLog = <<>>
    /\ last = LastCall("init", "", NoRef, None, None, FALSE, 0, 0)

\* the messages the loops are handling
InFlight == {tasks[t].message : t \in DOMAIN tasks}

\* the new state after a call left the broker as R, the caller keeping a handle
\* on `keep` and on the messages `got` it was just given; objects nothing refers
\* to any more are collected
Commit(R, keep, got, arr, asg, log) ==
    LET live == Referenced(R.q, R.h, {keep} \cup got \cup InFlight, arr, log)
    IN  /\ msgs' = Restrict(R.m, live)
        /\ agent_queues' = R.q
        /\ message_history' = R.h
        /\ held' = keep
        /\ arrival' = arr
        /\ assigned' = Restrict(asg, live)
        /\ sendLog' = log

-----------------------------------------------------------------------------
(* Calls on the broker made from outside the agents *)

\* broker.register_agent(agent_id)
RegisterAgent(agent_id) ==
    /\ regs < MaxRegs
    /\ LET R == register_agent(TheBroker, agent_id)
       IN  /\ Commit(R, held, {}, DictSet(arrival, agent_id, <<>>), assigned,
                     DictSet(sendLog, agent_id, <<>>))
           /\ last' = LastCall("register_agent", agent_id, NoRef, None, R.ret, R.exc, 0, 0)
    /\ regs' = regs + 1
    /\ UNCHANGED <<sends, agents, tasks>>

\* the observers and the state after send_message(r) returned R
Sent(R, r, callerId, uuid, keep) ==
    LET sender == R.m[r].sender
    IN  /\ Commit(R, keep, {}, ArrivalAfterPut(arrival, agent_queues, R.q, <<r>>),
                  DictSet(assigned, r, uuid), LogAfterSend(sendLog, sender, <<r>>))
        /\ last' = LastCall("send_message", sender, r, R.m[r], R.ret, R.exc, callerId, uuid)

\* message = Message(...); broker.send_message(message); the caller keeps `message`
\* if `keep`
SendMessage(callerId, sender, receiver, message_type, content, priority, keep) ==
    \E r \in {NewRef(msgs, sender \in DOMAIN message_history)} :
    \E m0 \in {DictSet(msgs, r, Message(callerId, sender, receiver, message_type,
                                        content, priority, NoReply))} :
    \E uuid \in {Uuid4(m0, sender \in DOMAIN message_history)} :
    \E R \in {send_message(Broker(m0, agent_queues, message_history), r, uuid)} :
       Sent(R, r, callerId, uuid, IF keep THEN r ELSE held)

\* ... as one of at most `budget` sends
SendNew(callerId, sender, receiver, message_type, content, priority, budget) ==
    /\ sends < budget
    /\ SendMessage(callerId, sender, receiver, message_type, content, priority, TRUE)
    /\ sends' = sends + 1
    /\ UNCHANGED <<regs, agents, tasks>>

\* broker.send_message(message) again, on the object the caller kept
SendAgain(budget) ==
    /\ sends < budget
    /\ held # NoRef
    /\ \E uuid \in {Uuid4(msgs, msgs[held].sender \in DOMAIN message_history)} :
       \E R \in {send_message(TheBroker, held, uuid)} :
          Sent(R, held, msgs[held].id, uuid, held)
    /\ sends' = sends + 1
    /\ UNCHANGED <<regs, agents, tasks>>

\* broker.receive_message(agent_id)
Receive(agent_id) ==
    /\ \E R \in {receive_message(TheBroker, agent_id)} :
       LET arr == IF R.ret # NoRef
                  THEN [arrival EXCEPT ![agent_id] = RemoveFirst(@, R.ret)] ELSE arrival
       IN  /\ Commit(R, held, {R.ret}, arr, assigned, sendLog)
           /\ last' = LastCall("receive_message", agent_id, R.ret, Snapshot(R.m, R.ret),
                               Snapshot(R.m, R.ret), R.exc, 0, 0)
    /\ UNCHANGED <<sends, regs, agents, tasks>>

Contents == {<<"ping">>}

\* the calls outside code makes on the broker, its arguments drawn from the given sets
Calls(ids, senders, receivers, types, budget) ==
    \/ \E agent_id \in ids : RegisterAgent(agent_id)
    \/ \E callerId \in CallerIds, sender \in senders, receiver \in receivers,
          message_type \in types, content \in Contents, priority \in Priorities :
          SendNew(callerId, sender, receiver, message_type, content, priority, budget)
    \/ SendAgain(budget)
    \/ \E agent_id \in ids : Receive(agent_id)

\* routing and history: every agent id as sender and as receiver, few messages
Next == Calls(AgentIds, AgentIds, AgentIds \cup {ALL}, {"request"}, MaxSends)

Spec == Init /\ [][Next]_vars

\* one mailbox filled by one sender, directly and by broadcast: more messages
MailboxNext == Calls({"manager", "worker1"}, {"manager"}, {"worker1", ALL}, {"request"}, MaxPuts)

MailboxSpec == Init /\ [][MailboxNext]_vars

-----------------------------------------------------------------------------
(* The agents of demo_message_queue and their loops. A loop runs without    *)
(* suspension from one `await asyncio.sleep(0.1)` to the next: the test of   *)
(* `self.running`, the receive and the whole handle_message (none of its     *)
(* awaits suspends) are one step of the event loop.                          *)

DemoAgents == <<"manager", "worker1", "worker2">>

\* the broker once the agents of the demo are constructed
RECURSIVE DemoBroker(_)
DemoBroker(n) ==
    IF n = 0 THEN EmptyBroker ELSE register_agent(DemoBroker(n - 1), DemoAgents[n])

\* MessageQueueAgent.__init__
NewAgent(agent_id) == [agent_id |-> agent_id, running |-> FALSE]

\* asyncio.create_task(agent.start_listening()); `message` is the local
\* variable of start_listening while the message is being handled; the
\* observer `stopped` tells whether the agent's running was set to False
\* between the creation of the task and its first run
NewTask(agent) == [agent |-> agent, pc |-> "created", message |-> NoRef, stopped |-> FALSE]

\* MessageQueueAgent.start_listening up to its first sleep, the mailbox being empty
Started(agent) == [agent EXCEPT !.running = TRUE]
Suspended(task) == [task EXCEPT !.pc = "sleeping"]

\* demo_message_queue once "the system is initialized": the three agents are
\* constructed, their tasks created and every loop has reached its first sleep
AgentInit ==
    /\ msgs = DemoBroker(Len(DemoAgents)).m
    /\ agent_queues = DemoBroker(Len(DemoAgents)).q
    /\ message_history = DemoBroker(Len(DemoAgents)).h
    /\ agents = [o \in DOMAIN DemoAgents |-> Started(NewAgent(DemoAgents[o]))]
    /\ tasks = [t \in DOMAIN DemoAgents |-> Suspended(NewTask(t))]
    /\ held = NoRef
    /\ sends = 0
    /\ regs = Len(DemoAgents)
    /\ arrival = [a \in Range(DemoAgents) |-> <<>>]
    /\ assigned = <<>>
    /\ sendLog = [a \in Range(DemoAgents) |-> <<>>]
    /\ last = LastCall("init", "", NoRef, None, None, FALSE, 0, 0)

\* the task has ended
Ended(t) == tasks[t].pc \in {"returned", "cancelled", "failed"}

RunningAlways(task, agent) == TRUE

\* "self.running = True; while self.running": what the loop reads when task
\* `task` of `agent` gets to the head of the loop
Running(task, agent) == task.pc = "created" \/ agent.running

SleepsIfEmpty(ret) == ret = NoRef

\* whether the iteration that dequeued ret (NoRef: nothing) ends in
\* `await asyncio.sleep(0.1)`: the sleep is a statement of the loop body, outside
\* the `if message:`
Sleeps(ret) == TRUE

\* one turn of start_listening for task t, from where it was suspended (or from
\* its start) to its next suspension or its end; llm is what the collaborator
\* does if it is called, and `stopped` tells whether running is set to False
\* from outside while the message is dispatched. The observer `last` records
\* the turns that dequeued a message.
Turn(t, llm, stopped) ==
    /\ tasks[t].pc \in {"created", "sleeping", "polling"}
    /\ LET o == tasks[t].agent
           self == agents[o].agent_id
       IN  IF ~Running(tasks[t], agents[o])
           THEN /\ tasks' = [tasks EXCEPT ![t].pc = "returned"]
                /\ last' = LastCall("return", self, NoRef, None, None, FALSE, 0, 0)
                /\ UNCHANGED <<msgs, agent_queues, message_history, agents, held,
                               arrival, assigned, sendLog>>
           ELSE \E R \in {receive_message(TheBroker, self)} :
                \E H \in {IF R.ret # NoRef THEN handle_message(R, self, R.ret, llm)
                           ELSE Handled(R, FALSE, <<>>)} :
                   LET arr == IF R.ret # NoRef
                              THEN [arrival EXCEPT ![self] = RemoveFirst(@, R.ret)]
                              ELSE arrival
                   IN  /\ agents' = [agents EXCEPT
                                        ![o].running = ~(stopped /\ R.ret # NoRef)]
                       /\ tasks' = [tasks EXCEPT ![t].pc =
                                       IF H.exc THEN "failed"
                                       ELSE IF Sleeps(R.ret) THEN "sleeping"
                                       ELSE "polling"]
                       /\ Commit(H, held, IF R.ret = NoRef THEN {last.ref} \cup Range(last.sentRefs)
                                           ELSE {R.ret} \cup Range(H.sent),
                                 ArrivalAfterPut(arr, R.q, H.q, H.sent),
                                 AssignedAfterSend(assigned, H.m, H.sent),
                                 LogAfterSend(sendLog, self, H.sent))
                       /\ last' = IF R.ret = NoRef THEN last
                                   ELSE LastIteration(t, self, R.ret, Snapshot(R.m, R.ret), H.exc,
                                                      IF R.m[R.ret].message_type
                                                             \in {"request", "task_assignment"}
                                                      THEN llm.text ELSE <<>>,
                                                      H.sent,
                                                      [i \in DOMAIN H.sent |-> H.m[H.sent[i]]])
    /\ UNCHANGED <<sends, regs>>

\* a turn during which nobody touches the running flag
Iterate(t, llm) == Turn(t, llm, FALSE)

\* agent.running = False, by outside code, on an agent whose loop has started
Stop(o) ==
    /\ agents[o].running
    /\ \E t \in DOMAIN tasks : tasks[t].agent = o /\ tasks[t].pc = "sleeping"
    /\ agents' = [agents EXCEPT ![o].running = FALSE]
    /\ last' = LastCall("stop", agents[o].agent_id, NoRef, None, None, FALSE, 0, 0)
    /\ UNCHANGED <<msgs, agent_queues, message_history, tasks, held, sends, regs,
                   arrival, assigned, sendLog>>

\* agent.running = False, by outside code, after asyncio.create_task(...) and
\* before the event loop has run the new task for the first time
StopBeforeStart(o) ==
    /\ \E t \in DOMAIN tasks : tasks[t].agent = o /\ tasks[t].pc = "created"
                                  /\ ~tasks[t].stopped
    /\ agents' = [agents EXCEPT ![o].running = FALSE]
    /\ tasks' = [t \in DOMAIN tasks |->
                    IF tasks[t].agent = o /\ tasks[t].pc = "created"
                    THEN [tasks[t] EXCEPT !.stopped = TRUE] ELSE tasks[t]]
    /\ last' = LastCall("stop", agents[o].agent_id, NoRef, None, None, FALSE, 0, 0)
    /\ UNCHANGED <<msgs, agent_queues, message_history, held, sends, regs,
                   arrival, assigned, sendLog>>

\* task.cancel() and the event loop's next run of the task: CancelledError is
\* raised at the `await asyncio.sleep(0.1)` the loop is suspended in (a task
\* that never ran is cancelled before its first statement); start_listening
\* has no try, so the task ends there and nothing else is touched
Cancel(t) ==
    /\ tasks[t].pc \in {"created", "sleeping"}
    /\ tasks' = [tasks EXCEPT ![t].pc = "cancelled"]
    /\ last' = LastCall("cancel", agents[tasks[t].agent].agent_id, NoRef, None, None,
                        FALSE, 0, 0)
    /\ UNCHANGED <<msgs, agent_queues, message_history, agents, held, sends, regs,
                   arrival, assigned, sendLog>>

\* MessageQueueAgent(agent_id, broker, llm): a new agent object, registered
\* under agent_id
Construct(agent_id, budget) ==
    /\ Len(agents) < budget
    /\ LET R == register_agent(TheBroker, agent_id)
       IN  /\ Commit(R, held, {}, DictSet(arrival, agent_id, <<>>), assigned,
                     DictSet(sendLog, agent_id, <<>>))
           /\ last' = LastCall("__init__", agent_id, NoRef, None, R.ret, R.exc, 0, 0)
    /\ agents' = Append(agents, NewAgent(agent_id))
    /\ regs' = regs + 1
    /\ UNCHANGED <<sends, tasks>>

\* asyncio.create_task(agent.start_listening()) for agent number o
Start(o, budget) ==
    /\ Len(tasks) < budget
    /\ tasks' = Append(tasks, NewTask(o))
    /\ last' = LastCall("create_task", agents[o].agent_id, NoRef, None, None, FALSE, 0, 0)
    /\ UNCHANGED <<msgs, agent_queues, message_history, agents, held, sends, regs,
                   arrival, assigned, sendLog>>

\* MessageQueueAgent.send_request
SendRequest(o, target_agent, request, priority, budget) ==
    /\ sends < budget
    /\ SendMessage(0, agents[o].agent_id, target_agent, "request", request, priority, FALSE)
    /\ sends' = sends + 1
    /\ UNCHANGED <<regs, agents, tasks>>

\* broker.send_message(Message("", sender, receiver, TASK_ASSIGNMENT, task)) by outside code
AssignTask(sender, receiver, task, priority, budget) ==
    /\ sends < budget
    /\ SendMessage(0, sender, receiver, "task_assignment", task, priority, FALSE)
    /\ sends' = sends + 1
    /\ UNCHANGED <<regs, agents, tasks>>

\* the pending messages whose sender is not registered
Unrecorded == {r \in UNION {Range(agent_queues[a]) : a \in DOMAIN agent_queues} :
                  msgs[r].sender \notin DOMAIN message_history}

\* broker.send_message by outside code under a sender id that is not registered,
\* of a message that calls for no answer; any number of these over time, fewer
\* than MaxNotes pending at once
Notify(sender, receiver, message_type, content, priority) ==
    /\ sender \notin DOMAIN message_history
    /\ message_type \in {"response", "broadcast"}
    /\ Cardinality(Unrecorded) < MaxNotes
    /\ SendMessage(0, sender, receiver, message_type, content, priority, FALSE)
    /\ UNCHANGED <<sends, regs, agents, tasks>>

Tasks == {<<"job-1">>}
Notes == {<<"note">>}

\* the agents at work: requests from two agents to worker1 and tasks for worker1
AgentNext ==
    \/ \E t \in DOMAIN tasks, llm \in LLMOutcomes : Iterate(t, llm)
    \/ \E o \in {1, 3}, request \in Contents, priority \in Priorities :
          SendRequest(o, "worker1", request, priority, MaxAgentSends)
    \/ \E task \in Tasks : AssignTask("manager", "worker1", task, DefaultPriority, MaxAgentSends)

AgentSpec == AgentInit /\ [][AgentNext]_vars

\* what the collaborator does in the specifications with fairness
Answers == {l \in LLMOutcomes : l.text \in {<<>>, <<"pong">>}}

\* the event loop runs every task that is ready: a loop that is not ended gets its turn
Scheduled == \A t \in DOMAIN DemoAgents : WF_vars(\E llm \in Answers : Iterate(t, llm))

\* the manager sends requests to worker1 while outside code broadcasts notes
RequestNext ==
    \/ \E t \in DOMAIN tasks, llm \in Answers : Iterate(t, llm)
    \/ \E request \in Contents, priority \in Priorities :
          SendRequest(1, "worker1", request, priority, MaxAgentSends)
    \/ \E content \in Notes : Notify("guest", ALL, "broadcast", content, MaxPriority)

RequestSpec == AgentInit /\ [][RequestNext]_vars /\ Scheduled

\* tasks are assigned to worker1 while outside code broadcasts notes
TaskNext ==
    \/ \E t \in DOMAIN tasks, llm \in Answers : Iterate(t, llm)
    \/ \E task \in Tasks : AssignTask("manager", "worker1", task, DefaultPriority, MaxAgentSends)
    \/ \E content \in Notes : Notify("guest", ALL, "broadcast", content, MaxPriority)

TaskSpec == AgentInit /\ [][TaskNext]_vars /\ Scheduled

\* the collaborator returns a text
Succeeds == {l \in LLMOutcomes : ~l.raised}

\* a few requests and tasks for worker1 from outside the loops, every loop
\* getting its turns and every collaborator call succeeding
QuietNext ==
    \/ \E t \in DOMAIN tasks, llm \in Succeeds : Iterate(t, llm)
    \/ \E o \in {1, 3}, request \in Contents, priority \in Priorities :
          SendRequest(o, "worker1", request, priority, MaxAgentSends)
    \/ \E task \in Tasks : AssignTask("manager", "worker1", task, DefaultPriority, MaxAgentSends)

QuietSpec ==
    /\ AgentInit /\ [][QuietNext]_vars
    /\ \A t \in DOMAIN DemoAgents : WF_vars(\E llm \in Succeeds : Iterate(t, llm))

\* requests and tasks for worker1 while the agents are stopped, between two
\* turns or in the middle of a dispatch
StopNext ==
    \/ \E t \in DOMAIN tasks, llm \in Answers, stopped \in BOOLEAN : Turn(t, llm, stopped)
    \/ \E o \in DOMAIN agents : Stop(o)
    \/ \E request \in Contents :
          SendRequest(1, "worker1", request, DefaultPriority, MaxAgentSends)
    \/ \E task \in Tasks : AssignTask("manager", "worker1", task, DefaultPriority, MaxAgentSends)

StopSpec == AgentInit /\ [][StopNext]_vars /\ Scheduled

SuspendsAlways(aw) == TRUE

\* whether the `await` named aw hands control back to the event loop, so that
\* another task can run: asyncio.sleep does; awaiting handle_message,
\* process_request or execute_task runs the coroutine at once, and none of them
\* awaits anything but one another (the collaborator is called synchronously)
Suspends(aw) == aw = "sleep"

\* task u is in the middle of a turn and has not handed control back
OnThread(u) == tasks[u].pc = "handling" /\ ~Suspends("handle_message")

\* the event loop can run task t (or, for t = 0, the code outside the loops)
Free(t) == \A u \in DOMAIN tasks \ {t} : ~OnThread(u)

\* start_listening for task t from the head of the loop to
\* `await self.handle_message(message)`, or to the sleep if nothing was dequeued
Poll(t) ==
    /\ tasks[t].pc \in {"created", "sleeping", "polling"}
    /\ Free(t)
    /\ LET o == tasks[t].agent
           self == agents[o].agent_id
       IN  IF ~Running(tasks[t], agents[o])
           THEN /\ tasks' = [tasks EXCEPT ![t].pc = "returned"]
                /\ last' = LastCall("return", self, NoRef, None, None, FALSE, 0, 0)
                /\ UNCHANGED <<msgs, agent_queues, message_history, agents, held,
                               arrival, assigned, sendLog>>
           ELSE \E R \in {receive_message(TheBroker, self)} :
                   /\ agents' = [agents EXCEPT ![o].running = TRUE]
                   /\ IF R.ret = NoRef
                      THEN /\ tasks' = [tasks EXCEPT ![t].pc =
                                           IF Sleeps(R.ret) THEN "sleeping" ELSE "polling"]
                           /\ UNCHANGED <<msgs, agent_queues, message_history, held,
                                          arrival, assigned, sendLog, last>>
                      ELSE /\ tasks' = [tasks EXCEPT ![t].pc = "handling",
                                                     ![t].message = R.ret]
                           /\ Commit(R, held, {R.ret},
                                     [arrival EXCEPT ![self] = RemoveFirst(@, R.ret)],
                                     assigned, sendLog)
                           /\ last' = LastCall("receive_message", self, R.ret,
                                               Snapshot(R.m, R.ret), Snapshot(R.m, R.ret),
                                               R.exc, 0, 0)
    /\ UNCHANGED <<sends, regs>>

\* start_listening for task t from `await self.handle_message(message)` to
\* the sleep that ends the iteration, or to the end of the task if the
\* collaborator raises
Handle(t, llm) ==
    /\ tasks[t].pc = "handling"
    /\ Free(t)
    /\ LET self == agents[tasks[t].agent].agent_id
           message == tasks[t].message
       IN  \E H \in {handle_message(TheBroker, self, message, llm)} :
              /\ tasks' = [tasks EXCEPT ![t].message = NoRef,
                                        ![t].pc = IF H.exc THEN "failed"
                                                  ELSE IF Sleeps(message) THEN "sleeping"
                                                  ELSE "polling"]
              /\ Commit(H, held, {message} \cup Range(H.sent),
                        ArrivalAfterPut(arrival, agent_queues, H.q, H.sent),
                        AssignedAfterSend(assigned, H.m, H.sent),
                        LogAfterSend(sendLog, self, H.sent))
              /\ last' = LastIteration(t, self, message, msgs[message], H.exc,
                                       IF msgs[message].message_type
                                              \in {"request", "task_assignment"}
                                       THEN llm.text ELSE <<>>,
                                       H.sent,
                                       [i \in DOMAIN H.sent |-> H.m[H.sent[i]]])
    /\ UNCHANGED <<agents, sends, regs>>

\* the loops step by step, with requests to the workers and tasks for worker1
\* from the code outside the loops, which runs when the event loop lets it
DispatchNext ==
    \/ \E t \in DOMAIN tasks : Poll(t)
    \/ \E t \in DOMAIN tasks, llm \in LLMOutcomes : Handle(t, llm)
    \/ \E target_agent \in {"worker1", "worker2"}, request \in Contents :
          Free(0) /\ SendRequest(1, target_agent, request, DefaultPriority, MaxAgentSends)
    \/ \E task \in Tasks :
          Free(0) /\ AssignTask("manager", "worker1", task, DefaultPriority, MaxAgentSends)

DispatchSpec == AgentInit /\ [][DispatchNext]_vars

\* agents are constructed, their loops started, stopped and cancelled in any
\* order while requests are sent
LoopsNext ==
    \/ \E agent_id \in {"manager", "worker1"} : Construct(agent_id, MaxAgents)
    \/ \E o \in DOMAIN agents : Start(o, MaxLoops)
    \/ \E t \in DOMAIN tasks, llm \in Answers : Iterate(t, llm)
    \/ \E o \in DOMAIN agents : Stop(o)
    \/ \E o \in DOMAIN agents : StopBeforeStart(o)
    \/ \E t \in DOMAIN tasks : Cancel(t)
    \/ \E o \in DOMAIN agents, target_agent \in {"manager", "worker1"}, request \in Contents :
          SendRequest(o, target_agent, request, DefaultPriority, MaxAgentSends)

LoopsSpec == Init /\ [][LoopsNext]_vars

-----------------------------------------------------------------------------
(* Calls on the broker from two threads. The broker takes no lock: a thread   *)
(* switch can fall between any two steps of send_message. A register_agent of *)
(* another thread is placed at each point of a broadcast's loop over          *)
(* self.agent_queues.                                                          *)

\* the keys of the dict q in the order a `for` visits them, the order of
\* insertion: the agents of the demo, then "guest"
Keys(q) == SelectSeq(DemoAgents \o <<"guest">>, LAMBDA agent_id : agent_id \in DOMAIN q)

\* the mailboxes after the loop of a broadcast has put message r into the
\* mailboxes of the keys numbered from..to
PutFor(m, q, keys, from, to, r) ==
    [agent_id \in DOMAIN q |->
        IF \E i \in from..to : i \in DOMAIN keys /\ keys[i] = agent_id
                                 /\ agent_id # m[r].sender
        THEN HeapPush(m, q[agent_id], r)
        ELSE q[agent_id]]

\* send_message(message), message.receiver being "ALL", while another thread
\* runs register_agent(agent_id) for an id that is not registered, once the
\* loop has taken k keys from the dict's iterator (k = Len + 1: once the loop
\* is over). The dict has grown, so the iterator's next step raises
\* RuntimeError ("dictionary changed size during iteration"), which leaves
\* send_message at once.
send_messageWhileRegistering(B, r, uuid, agent_id, k) ==
    With(AssignId(B.m, r, uuid), LAMBDA m1 :
    LET keys == Keys(B.q)
        q1 == PutFor(m1, B.q, keys, 1, k, r)
        R == register_agent(Broker(m1, q1, B.h), agent_id)
    IN  IF k <= Len(keys)
        THEN Returned(Broker(R.m, R.q, R.h), None, TRUE)
        ELSE Returned(Broker(R.m, R.q, SaveHistory(R.h, m1[r], r)), None, FALSE))

\* thread 1: broker.send_message(Message(...,  receiver="ALL", ...));
\* thread 2: broker.register_agent(agent_id)
SendWhileRegistering(callerId, sender, message_type, content, priority, agent_id, k, budget) ==
    /\ sends < budget
    /\ regs < MaxRegs
    /\ agent_id \notin DOMAIN agent_queues
    /\ k \in 0..(Len(Keys(agent_queues)) + 1)
    /\ \E r \in {NewRef(msgs, sender \in DOMAIN message_history)} :
       \E m0 \in {DictSet(msgs, r, Message(callerId, sender, ALL, message_type,
                                           content, priority, NoReply))} :
       \E uuid \in {Uuid4(m0, sender \in DOMAIN message_history)} :
       \E R \in {send_messageWhileRegistering(Broker(m0, agent_queues, message_history),
                                               r, uuid, agent_id, k)} :
          /\ Commit(R, r, {},
                    [a \in DOMAIN R.q |->
                        IF a = agent_id THEN <<>>
                        ELSE IF Len(R.q[a]) > Len(agent_queues[a])
                        THEN Append(arrival[a], r) ELSE arrival[a]],
                    DictSet(assigned, r, uuid),
                    LogAfterSend(DictSet(sendLog, agent_id, <<>>), sender, <<r>>))
          /\ last' = LastCall("send_message", sender, r, R.m[r], R.ret, R.exc, callerId, uuid)
    /\ sends' = sends + 1
    /\ regs' = regs + 1
    /\ UNCHANGED <<agents, tasks>>

\* the broker once the three agents of the demo are registered
RaceInit ==
    /\ msgs = DemoBroker(Len(DemoAgents)).m
    /\ agent_queues = DemoBroker(Len(DemoAgents)).q
    /\ message_history = DemoBroker(Len(DemoAgents)).h
    /\ agents = <<>>
    /\ tasks = <<>>
    /\ held = NoRef
    /\ sends = 0
    /\ regs = 0
    /\ arrival = [a \in Range(DemoAgents) |-> <<>>]
    /\ assigned = <<>>
    /\ sendLog = [a \in Range(DemoAgents) |-> <<>>]
    /\ last = LastCall("init", "", NoRef, None, None, FALSE, 0, 0)

\* broadcasts of one thread and the registration of "guest" by another, one
\* after the other or at the same time, and receives
RaceNext ==
    \/ RegisterAgent("guest")
    \/ \E sender \in {"manager", "guest"}, content \in Contents, priority \in Priorities :
          SendNew(0, sender, ALL, "broadcast", content, priority, MaxSends)
    \/ \E sender \in {"manager", "guest"}, content \in Contents, priority \in Priorities,
          k \in 0..(Len(DemoAgents) + 1) :
          SendWhileRegistering(0, sender, "broadcast", content, priority, "guest", k, MaxSends)
    \/ \E agent_id \in AgentIds \cup {"guest"} : Receive(agent_id)

RaceSpec == RaceInit /\ [][RaceNext]_vars

-----------------------------------------------------------------------------
(* Properties *)

\* how often x occurs in the sequence s
Count(s, x) == Cardinality({i \in DOMAIN s : s[i] = x})

\* the last call was send_message / a receive_message that returned a message
DidSend == last.op = "send_message"
DidReceive == last.op = "receive_message" /\ last.ref # NoRef

\* C1: the message receive_message(X) returns has a priority greater than or
\* equal to that of every message still pending in X's mailbox.
C1_ReceiveReturnsHighestPriority ==
    DidReceive =>
        \A r \in Range(agent_queues[last.agent]) : msgs[r].priority <= last.ret.priority

\* C1 witness: a receive left behind both an equal and a lower priority message
C1_Witness ==
    /\ DidReceive
    /\ \E r \in Range(agent_queues[last.agent]) : msgs[r].priority < last.ret.priority
    /\ \E r \in Range(agent_queues[last.agent]) : msgs[r].priority = last.ret.priority

\* C2: among messages of equal priority pending in one mailbox, receive_message
\* returns the one that was put first: no message of the same priority was put
\* into the mailbox before the one returned and is still pending.
C2_FifoAmongEqualPriorities ==
    [][(last'.op = "receive_message" /\ last'.ref # NoRef) =>
          LET arr == arrival[last'.agent]
              k == CHOOSE i \in DOMAIN arr : arr[i] = last'.ref /\ \A j \in 1..(i - 1) : arr[j] # last'.ref
          IN  \A j \in 1..(k - 1) : msgs[arr[j]].priority # msgs[last'.ref].priority]_vars

\* C3: a send_message with receiver "ALL" from A puts exactly one entry into the
\* mailbox of every agent registered at that moment other than A, and nothing
\* into A's own mailbox.
C3_BroadcastReachesAllButSender ==
    [][(last'.op = "send_message" /\ last'.msg.receiver = ALL) =>
          /\ DOMAIN agent_queues' = DOMAIN agent_queues
          /\ \A a \in DOMAIN agent_queues :
                IF a # last'.msg.sender
                THEN /\ Len(agent_queues'[a]) = Len(agent_queues[a]) + 1
                     /\ Count(agent_queues'[a], last'.ref) = Count(agent_queues[a], last'.ref) + 1
                     /\ \A r \in Range(agent_queues[a]) :
                           r # last'.ref => Count(agent_queues'[a], r) = Count(agent_queues[a], r)
                ELSE agent_queues'[a] = agent_queues[a]]_vars

\* C3 witness: a registered agent has broadcast to two other registered agents,
\* one of which already had a message pending
C3_Witness ==
    /\ DidSend /\ last.msg.receiver = ALL
    /\ DOMAIN agent_queues = AgentIds
    /\ \A a \in AgentIds \ {last.msg.sender} : last.ref \in Range(agent_queues[a])
    /\ agent_queues[last.msg.sender] = <<>>
    /\ \E a \in AgentIds : Len(agent_queues[a]) = 2

\* C4: a send_message whose receiver is neither "ALL" nor a registered agent id
\* changes no mailbox, raises nothing and returns normally.
C4_UnregisteredReceiverDropped ==
    [][(last'.op = "send_message" /\ last'.msg.receiver # ALL
            /\ last'.msg.receiver \notin DOMAIN agent_queues) =>
          /\ agent_queues' = agent_queues
          /\ last'.exc = FALSE]_vars

\* C4 witness: a registered sender has sent to an unregistered id while another
\* mailbox held a message
C4_Witness ==
    /\ DidSend /\ last.msg.receiver # ALL
    /\ last.msg.receiver \notin DOMAIN agent_queues
    /\ last.msg.sender \in DOMAIN agent_queues
    /\ \E a \in DOMAIN agent_queues : agent_queues[a] # <<>>

C6_HistoryIsTheCallLog ==
    /\ DOMAIN sendLog = DOMAIN message_history
    /\ \A a \in DOMAIN message_history : message_history[a] = sendLog[a]

\* C6 witness: an agent has made a direct send that was dropped and a broadcast,
\* and another agent has received since
C6_Witness ==
    /\ \E a \in DOMAIN message_history :
          /\ Len(message_history[a]) = 2
          /\ message_history[a][1] # message_history[a][2]
          /\ msgs[message_history[a][1]].receiver # ALL
          /\ msgs[message_history[a][1]].receiver \notin DOMAIN agent_queues
          /\ msgs[message_history[a][2]].receiver = ALL
          /\ DidReceive /\ last.agent # a

\* sub occurs in s as a run of consecutive elements
Contains(s, sub) ==
    \E i \in 0..(Len(s) - Len(sub)) : SubSeq(s, i + 1, i + Len(sub)) = sub

\* l records a turn of an agent's loop that dequeued a message of type ty and
\* whose handle_message returned normally
Dispatched(l, ty) == l.op = "iterate" /\ l.ret.message_type = ty /\ ~l.exc

\* the step is one send_message call by agent a and no other: a's history gains
\* one entry, that message is put once into the mailbox of each of its
\* recipients, and no mailbox changes otherwise but for the message a dequeued
SentOnce(a, got, h, h1, q, q1) ==
    /\ Len(h1[a]) = Len(h[a]) + 1
    /\ SubSeq(h1[a], 1, Len(h[a])) = h[a]
    /\ \A b \in DOMAIN h : b # a => h1[b] = h[b]
    /\ LET r == h1[a][Len(h1[a])]
       IN  \A b \in DOMAIN q :
              /\ Count(q1[b], r) = Count(q[b], r) + (IF b \in Recipients(q, msgs'[r]) THEN 1 ELSE 0)
              /\ \A x \in Range(q[b]) \cup Range(q1[b]) :
                    x # r => Count(q1[b], x) = Count(q[b], x) - (IF b = a /\ x = got THEN 1 ELSE 0)

\* the message agent a sent last, in store m with histories h
Newest(m, h, a) == m[h[a][Len(h[a])]]

\* C9: when an agent's loop dispatches a REQUEST and the handler returns
\* normally, the agent makes exactly one send_message call; its message has type
\* RESPONSE, the agent as sender, the request's sender as receiver and the
\* request's broker-assigned id as reply_to.
C9_RequestAnsweredOnce ==
    [][Dispatched(last', "request") =>
          /\ SentOnce(last'.agent, last'.ref, message_history, message_history',
                      agent_queues, agent_queues')
          /\ Newest(msgs', message_history', last'.agent).message_type = "response"
          /\ Newest(msgs', message_history', last'.agent).sender = last'.agent
          /\ Newest(msgs', message_history', last'.agent).receiver = msgs[last'.ref].sender
          /\ Newest(msgs', message_history', last'.agent).reply_to = assigned[last'.ref]
          /\ Newest(msgs', message_history', last'.agent).reply_to = msgs[last'.ref].id]_vars

\* C9 witness: worker1 has answered a request of worker2 while a request of the
\* manager was pending, and the response waits in worker2's mailbox
C9_Witness ==
    /\ Dispatched(last, "request")
    /\ last.agent = "worker1" /\ last.ret.sender = "worker2"
    /\ \E r \in Range(agent_queues["worker1"]) : msgs[r].sender = "manager"
    /\ \E r \in Range(agent_queues["worker2"]) :
          msgs[r].message_type = "response" /\ msgs[r].reply_to = last.ret.id

\* C10: when an agent's loop dispatches a TASK_ASSIGNMENT and the handler
\* returns normally, the agent makes exactly one send_message call; its message
\* has type BROADCAST, receiver "ALL", the agent as sender, and a content that
\* names both the task and the result the collaborator returned.
C10_TaskCompletionBroadcastOnce ==
    [][Dispatched(last', "task_assignment") =>
          /\ SentOnce(last'.agent, last'.ref, message_history, message_history',
                      agent_queues, agent_queues')
          /\ Newest(msgs', message_history', last'.agent).message_type = "broadcast"
          /\ Newest(msgs', message_history', last'.agent).receiver = ALL
          /\ Newest(msgs', message_history', last'.agent).sender = last'.agent
          /\ Contains(Newest(msgs', message_history', last'.agent).content, msgs[last'.ref].content)
          /\ last'.out \in LLMTexts
          /\ Contains(Newest(msgs', message_history', last'.agent).content, last'.out)]_vars

\* C10 witness: worker1 has completed a task and its broadcast waits in the
\* mailboxes of the manager and of worker2 and not in its own
C10_Witness ==
    /\ Dispatched(last, "task_assignment")
    /\ last.agent = "worker1" /\ last.out = <<"done">>
    /\ \A a \in {"manager", "worker2"} :
          \E r \in Range(agent_queues[a]) :
             msgs[r].message_type = "broadcast" /\ Contains(msgs[r].content, <<"job-1">>)
    /\ \A r \in Range(agent_queues["worker1"]) : msgs[r].message_type # "broadcast"

\* the ids the broker can have assigned to the messages of registered senders
\* in RequestSpec and TaskSpec: each of the MaxAgentSends messages and its answer
LastingIds == Names(TRUE, 2 * MaxAgentSends)

\* the messages the last call put into mailboxes
JustPut ==
    IF last.op = "send_message" THEN <<last.msg>>
    ELSE IF last.op = "iterate" THEN last.sent ELSE <<>>

\* the last call has put a message of priority p or more into a's mailbox
PutInto(a, p) ==
    \E k \in DOMAIN JustPut :
       JustPut[k].priority >= p /\ a \in Recipients(agent_queues, JustPut[k])

\* from some time on no message of priority p or more is put into a's mailbox
Settles(a, p) == <>[]~PutInto(a, p)

\* the manager has just sent worker1 a request that got id i and has priority p
RequestSent(i, p) ==
    /\ DidSend
    /\ last.msg.message_type = "request"
    /\ last.msg.sender = "manager" /\ last.msg.receiver = "worker1"
    /\ last.msg.id = i /\ last.msg.priority = p

\* the manager has just dequeued a response of worker1 to the request of id i
\* whose content is what the collaborator returned
ResponseDequeued(i) ==
    /\ last.op = "iterate" /\ last.agent = "manager"
    /\ last.ret.message_type = "response"
    /\ last.ret.sender = "worker1"
    /\ last.ret.reply_to = i
    /\ last.ret.content \in LLMTexts

\* the loop of agent number o has ended: its collaborator raised
Stopped(o) == \E t \in DOMAIN tasks : tasks[t].agent = o /\ Ended(t)

\* every request of the manager gets an id of LastingIds
RequestIdsKnown ==
    [](DidSend /\ last.msg.sender \in DOMAIN message_history => last.msg.id \in LastingIds)

\* C7 as stated: with the manager and worker1 registered and their loops
\* running, whenever the manager sends worker1 a request, the manager
\* eventually dequeues a response of worker1 whose reply_to is the request's id
\* and whose content is the collaborator's output (provided the collaborator
\* of worker1 succeeds).
C7_RequestIsAnswered ==
    \A i \in LastingIds, p \in Priorities :
       [](RequestSent(i, p) => <>(ResponseDequeued(i) \/ Stopped(1) \/ Stopped(2)))

\* C7 amended: the same, provided that from some time on no message of the
\* request's priority or more is put into worker1's mailbox and no message of
\* the response's priority or more is put into the manager's mailbox.
C7_RequestIsAnsweredWhenMailboxesSettle ==
    /\ RequestIdsKnown
    /\ \A i \in LastingIds, p \in Priorities :
          (Settles("worker1", p) /\ Settles("manager", DefaultPriority))
             => [](RequestSent(i, p) => <>(ResponseDequeued(i) \/ Stopped(1) \/ Stopped(2)))

\* C7 witness: the manager has dequeued the response to a request of the lowest
\* priority while a note broadcast by outside code was still pending
C7_Witness ==
    /\ \E i \in LastingIds :
          /\ ResponseDequeued(i)
          /\ \E r \in Range(message_history["manager"]) : msgs[r].id = i /\ msgs[r].priority = 1
    /\ Unrecorded # {}

\* the manager has just sent worker1 a task assignment
TaskSent ==
    /\ DidSend
    /\ last.msg.message_type = "task_assignment"
    /\ last.msg.sender = "manager" /\ last.msg.receiver = "worker1"

\* m is a completion broadcast of worker1 naming the task and a result
Completion(m, task) ==
    /\ m.message_type = "broadcast" /\ m.sender = "worker1"
    /\ Contains(m.content, task)
    /\ \E result \in LLMTexts : Contains(m.content, result)

\* agent a has just dequeued a completion broadcast of worker1 for the task
BroadcastDequeued(a, task) ==
    /\ last.op = "iterate" /\ last.agent = a
    /\ Completion(last.ret, task)

\* worker1 has no broadcast of its own in its mailbox and has dequeued none
NotToItself ==
    /\ \A r \in Range(agent_queues["worker1"]) : msgs[r].sender # "worker1"
    /\ ~(last.op = "iterate" /\ last.agent = "worker1" /\ last.ret.sender = "worker1")

\* C8 as stated: with the manager, worker1 and worker2 registered and running,
\* whenever the manager sends worker1 a task assignment, eventually the manager
\* and worker2 each dequeue a broadcast of worker1 whose content has the task
\* text and the result, and worker1 never receives that broadcast.
C8_TaskIsAnnounced ==
    /\ []NotToItself
    /\ \A task \in Tasks :
          /\ [](TaskSent /\ last.msg.content = task
                   => <>(BroadcastDequeued("manager", task) \/ Stopped(2) \/ Stopped(1)))
          /\ [](TaskSent /\ last.msg.content = task
                   => <>(BroadcastDequeued("worker2", task) \/ Stopped(2) \/ Stopped(3)))

\* C8 amended: the same, provided that from some time on no message of the
\* task assignment's priority or more is put into worker1's mailbox and no
\* message of the broadcast's priority or more into the mailboxes of the
\* manager and of worker2.
C8_TaskIsAnnouncedWhenMailboxesSettle ==
    /\ []NotToItself
    /\ \A task \in Tasks :
          (\A a \in AgentIds : Settles(a, DefaultPriority)) =>
             /\ [](TaskSent /\ last.msg.content = task
                      => <>(BroadcastDequeued("manager", task) \/ Stopped(2) \/ Stopped(1)))
             /\ [](TaskSent /\ last.msg.content = task
                      => <>(BroadcastDequeued("worker2", task) \/ Stopped(2) \/ Stopped(3)))

\* C8 witness: worker2 has dequeued the completion broadcast after the manager
\* did, and worker1's mailbox is empty
C8_Witness ==
    /\ \E task \in Tasks : BroadcastDequeued("worker2", task)
    /\ last.ref \notin Range(agent_queues["manager"])
    /\ last.ref \in Range(message_history["worker1"])
    /\ agent_queues["worker1"] = <<>>
    /\ \A t \in DOMAIN tasks : ~Ended(t)

\* mailboxes q1 are mailboxes q but for one entry `got` taken out of a's
OnlyPopped(a, got, q, q1) ==
    /\ DOMAIN q1 = DOMAIN q
    /\ \A b \in DOMAIN q : b # a => q1[b] = q[b]
    /\ Len(q1[a]) = Len(q[a]) - 1
    /\ \A x \in Range(q[a]) : Count(q1[a], x) = Count(q[a], x) - (IF x = got THEN 1 ELSE 0)

\* C11: the dispatch of a RESPONSE or of a BROADCAST sends no message: but for
\* the pop of that message from the agent's own mailbox, every mailbox and every
\* history is unchanged.
C11_ResponseAndBroadcastSendNothing ==
    [][(last'.op = "iterate" /\ last'.ret.message_type \in {"response", "broadcast"}) =>
          /\ message_history' = message_history
          /\ OnlyPopped(last'.agent, last'.ref, agent_queues, agent_queues')
          /\ ~last'.exc
          /\ last'.sent = <<>>]_vars

\* C11 witness: the manager has dispatched a response while a completion
\* broadcast was pending in its mailbox and in worker2's
C11_Witness ==
    /\ last.op = "iterate" /\ last.agent = "manager"
    /\ last.ret.message_type = "response"
    /\ \E r \in Range(agent_queues["manager"]) :
          msgs[r].message_type = "broadcast" /\ r \in Range(agent_queues["worker2"])
    /\ message_history["manager"] # <<>>

\* the places where a send_message call left an entry: (agent, index) in a
\* history, one per call of a registered sender
HistoryEntries ==
    {e \in (DOMAIN message_history) \X (1..MaxSends) : e[2] \in DOMAIN message_history[e[1]]}

\* C12: no two distinct send_message calls yield the same id: history entries
\* of different calls, and entries of one mailbox (which stem from different
\* calls), carry pairwise different ids, also when one Message object is passed
\* to send_message more than once.
C12_IdsUniquePerSend ==
    /\ \A e, f \in HistoryEntries :
          e # f => msgs[message_history[e[1]][e[2]]].id # msgs[message_history[f[1]][f[2]]].id
    /\ \A a \in DOMAIN agent_queues : \A i, j \in DOMAIN agent_queues[a] :
          i # j => msgs[agent_queues[a][i]].id # msgs[agent_queues[a][j]].id

\* C13: register_agent on an id that is already registered fails or is a no-op:
\* the messages pending in that agent's mailbox and the agent's send history
\* are the same after the call as before it.
C13_ReregistrationKeepsState ==
    [][(last'.op = "register_agent" /\ last'.agent \in DOMAIN agent_queues) =>
          /\ agent_queues'[last'.agent] = agent_queues[last'.agent]
          /\ message_history'[last'.agent] = message_history[last'.agent]]_vars

\* C14: receive_message on an empty mailbox returns "no message" without
\* raising and leaves the broker's state unchanged; it goes on doing so, for the
\* mailbox stays empty until a send_message puts a message into it.
C14_EmptyReceiveReturnsNone ==
    [][/\ (last'.op = "receive_message" /\ last'.agent \in DOMAIN agent_queues
              /\ agent_queues[last'.agent] = <<>>) =>
             /\ last'.ret = None /\ last'.ref = NoRef
             /\ ~last'.exc
             /\ agent_queues' = agent_queues
             /\ message_history' = message_history
       /\ \A a \in DOMAIN agent_queues :
             (agent_queues[a] = <<>> /\ a \in DOMAIN agent_queues' /\ agent_queues'[a] # <<>>) =>
                (last'.op = "send_message" /\ a \in Recipients(agent_queues, last'.msg))]_vars

\* C14 witness: a receive on the empty mailbox of a registered agent has
\* returned nothing while another mailbox held a message
C14_Witness ==
    /\ last.op = "receive_message" /\ last.ref = NoRef
    /\ last.agent \in DOMAIN agent_queues
    /\ \E a \in DOMAIN agent_queues : agent_queues[a] # <<>>
    /\ \E a \in DOMAIN message_history : message_history[a] # <<>>

\* C15: send_message appends the message to the sender's history exactly when
\* the sender is registered, whether the message went to no, one or many
\* mailboxes; a send to an unregistered receiver is recorded all the same.
C15_HistoryRecordsEverySend ==
    [][last'.op = "send_message" =>
          IF last'.msg.sender \in DOMAIN message_history
          THEN message_history' =
                  [message_history EXCEPT ![last'.msg.sender] = Append(@, last'.ref)]
          ELSE message_history' = message_history]_vars

\* the mailboxes the last send_message put its message into
Delivered == {a \in DOMAIN agent_queues : last.ref \in Range(agent_queues[a])}

\* C15 witness: a registered agent with a send on record has sent to an
\* unregistered receiver, and the message went nowhere but into its history
C15_Witness ==
    /\ DidSend
    /\ last.msg.sender \in DOMAIN message_history
    /\ last.msg.receiver \notin DOMAIN agent_queues \cup {ALL}
    /\ Delivered = {}
    /\ Len(message_history[last.msg.sender]) = 2
    /\ message_history[last.msg.sender][2] = last.ref

\* C16: every message pending in agent X's mailbox has receiver X, or has
\* receiver "ALL" and a sender other than X.
C16_PendingMessagesAreAddressed ==
    \A X \in DOMAIN agent_queues : \A r \in Range(agent_queues[X]) :
       \/ msgs[r].receiver = X
       \/ msgs[r].receiver = ALL /\ msgs[r].sender # X

\* C16 witness: one mailbox holds a direct message and a broadcast while the
\* sender's own mailbox is empty
C16_Witness ==
    \E X \in DOMAIN agent_queues :
       /\ \E r \in Range(agent_queues[X]) : msgs[r].receiver = X
       /\ \E r \in Range(agent_queues[X]) :
             /\ msgs[r].receiver = ALL
             /\ msgs[r].sender \in DOMAIN agent_queues
             /\ agent_queues[msgs[r].sender] = <<>>

\* the messages in the history h of one agent, as store m shows them
Entries(m, h) == [i \in DOMAIN h |-> m[h[i]]]

IsPrefix(s, t) == Len(s) <= Len(t) /\ SubSeq(t, 1, Len(s)) = s

\* C17: the send history of every agent is append-only: across every step
\* (send, receive, register, dispatch) the history before is a prefix of the
\* history after, entry by entry and field by field.
C17_HistoryIsAppendOnly ==
    [][\A a \in DOMAIN message_history :
          /\ a \in DOMAIN message_history'
          /\ IsPrefix(Entries(msgs, message_history[a]),
                      Entries(msgs', message_history'[a]))]_vars

\* the loop of task t is between two iterations and its agent was told to stop
StopRequested(t) == tasks[t].pc = "sleeping" /\ ~agents[tasks[t].agent].running

\* the step is a turn of agent number o in which running was set to False
\* while a message was being dispatched
StoppedInDispatch(o) ==
    /\ agents[o].running /\ ~agents'[o].running
    /\ last'.op = "iterate" /\ last'.agent = agents[o].agent_id
    /\ agent_queues'[agents[o].agent_id] # agent_queues[agents[o].agent_id]

\* C18: after a stop request the loop performs no further receive once its
\* current iteration has finished, and then exits; a dispatch that was in
\* progress when the stop was requested still completes and sends its
\* follow-up message.
C18_StopTakesEffectAtNextPoll ==
    /\ [][\A t \in DOMAIN tasks :
             (StopRequested(t) /\ tasks'[t] # tasks[t]) =>
                /\ tasks'[t].pc = "returned"
                /\ agent_queues' = agent_queues
                /\ message_history' = message_history]_vars
    /\ \A t \in DOMAIN DemoAgents : [](StopRequested(t) => <>(tasks[t].pc = "returned"))
    /\ [][\A o \in DOMAIN agents :
             (StoppedInDispatch(o) /\ ~last'.exc
                 /\ last'.ret.message_type \in {"request", "task_assignment"}) =>
                /\ SentOnce(last'.agent, last'.ref, message_history, message_history',
                            agent_queues, agent_queues')
                /\ Newest(msgs', message_history', last'.agent).message_type =
                      (IF last'.ret.message_type = "request" THEN "response" ELSE "broadcast")
                /\ \A t \in DOMAIN tasks : tasks[t].agent = o => tasks'[t].pc = "sleeping"]_vars

\* C18 witness: worker1 was stopped while it dispatched a request, its response
\* is in the manager's mailbox, its loop has exited and has left a message
\* pending in its mailbox
C18_Witness ==
    /\ last.op = "return" /\ last.agent = "worker1"
    /\ tasks[2].pc = "returned" /\ ~agents[2].running
    /\ agent_queues["worker1"] # <<>>
    /\ \E r \in Range(agent_queues["manager"]) :
          msgs[r].message_type = "response" /\ msgs[r].sender = "worker1"

\* l records a turn in which the collaborator was called and raised
CollaboratorFailed(l) ==
    /\ l.op = "iterate"
    /\ l.ret.message_type \in {"request", "task_assignment"}
    /\ l.out \notin LLMTexts

\* C19: when the collaborator fails while an agent dispatches a REQUEST or a
\* TASK_ASSIGNMENT, the agent sends no follow-up message, the failed message is
\* neither put back nor dispatched again, the failure ends the consumption
\* loop, and but for the pop every mailbox and every history is unchanged.
C19_CollaboratorFailureEndsTheLoop ==
    /\ [][CollaboratorFailed(last') =>
             /\ last'.exc
             /\ last'.sent = <<>>
             /\ message_history' = message_history
             /\ OnlyPopped(last'.agent, last'.ref, agent_queues, agent_queues')
             /\ \A t \in DOMAIN tasks :
                   IF agents[tasks[t].agent].agent_id = last'.agent
                   THEN tasks'[t].pc = "failed"
                   ELSE tasks'[t] = tasks[t]]_vars
    /\ [][\A t \in DOMAIN tasks :
             tasks[t].pc = "failed" =>
                /\ tasks'[t] = tasks[t]
                /\ LET self == agents[tasks[t].agent].agent_id
                   IN  /\ Len(agent_queues'[self]) >= Len(agent_queues[self])
                       /\ message_history'[self] = message_history[self]]_vars

\* a message of type ty made worker1's collaborator fail, and a message that
\* was sent to worker1 since is left in its mailbox
FailedOn(ty) ==
    /\ tasks[2].pc = "failed"
    /\ DidSend /\ last.msg.receiver = "worker1"
    /\ Len(agent_queues["worker1"]) = 1
    /\ \E r \in Range(message_history["manager"]) \cup Range(message_history["worker2"]) :
          /\ msgs[r].message_type = ty
          /\ msgs[r].receiver = "worker1"
          /\ r \notin Range(agent_queues["worker1"])
    /\ message_history["worker1"] = <<>>

\* C19 witness: the collaborator failed on a task assignment
C19_Witness == FailedOn("task_assignment")

\* no message of priority p or more is pending in a's mailbox
NonePending(a, p) == \A r \in Range(agent_queues[a]) : msgs[r].priority < p

\* the loop of the agent with id a has ended
LoopEnded(a) == \E t \in DOMAIN tasks : agents[tasks[t].agent].agent_id = a /\ Ended(t)

\* C20: a message put into the mailbox of an agent whose loop runs and is never
\* stopped and never fails is eventually dequeued and dispatched by that agent,
\* if only finitely many messages of greater or equal priority are ever put
\* into that mailbox. Per mailbox and priority p: a message leaves a mailbox
\* only by being dispatched by its agent, and if the puts of priority p or more
\* cease, then from some time on none of them is pending.
C20_EventualVisibility ==
    /\ [][\A a \in DOMAIN agent_queues : \A r \in Range(agent_queues[a]) :
             Count(agent_queues'[a], r) < Count(agent_queues[a], r) =>
                last'.op = "iterate" /\ last'.agent = a /\ last'.ref = r]_vars
    /\ \A a \in AgentIds, p \in Priorities :
          Settles(a, p) => <>[](NonePending(a, p) \/ LoopEnded(a))

\* C20 witness: worker1 has dispatched a request of the lowest priority that
\* had to wait behind a note of a higher priority, which worker2 has yet to get
C20_Witness ==
    /\ last.op = "iterate" /\ last.agent = "worker1"
    /\ last.ret.message_type = "request" /\ last.ret.priority = 1
    /\ agent_queues["worker1"] = <<>>
    /\ \E r \in Range(agent_queues["worker2"]) : msgs[r].priority > 1
    /\ \A t \in DOMAIN tasks : ~Ended(t)

\* the references held by a mailbox or a history of broker state (q, h)
Placed(q, h) ==
    UNION {Range(q[a]) : a \in DOMAIN q} \cup UNION {Range(h[a]) : a \in DOMAIN h}

\* C21: the fields of a message, its id included, never change once a
\* send_message has placed it in a mailbox or a history: what a mailbox or a
\* history holds is a copy of its own, so that sending the same Message object
\* again leaves the entries of the earlier send as they were.
C21_PlacedMessagesNeverChange ==
    [][\A r \in Placed(agent_queues, message_history) :
          r \in Placed(agent_queues', message_history') => msgs'[r] = msgs[r]]_vars

\* the step is a turn of task t that dequeued a message and dispatched it
\* without a failure
DispatchedBy(t) ==
    /\ last'.op = "iterate" /\ ~last'.exc
    /\ last'.agent = agents[tasks[t].agent].agent_id
    /\ tasks[t].pc \in {"created", "sleeping", "polling"}

\* C22: the agent loop suspends for the poll interval only after a poll that
\* returned no message: after it has dispatched a dequeued message it goes
\* back to polling without sleeping.
C22_LoopSleepsOnlyAfterEmptyPoll ==
    [][\A t \in DOMAIN tasks : DispatchedBy(t) => tasks'[t].pc # "sleeping"]_vars

\* C22 as the code has it: the loop suspends for the poll interval at the end
\* of every iteration, after a dispatch as after an empty poll, so that between
\* two turns every loop that has not ended is in its sleep, whatever is pending
\* in its mailbox.
C22_LoopSleepsAfterEveryIteration ==
    /\ [][\A t \in DOMAIN tasks : DispatchedBy(t) => tasks'[t].pc = "sleeping"]_vars
    /\ [](\A t \in DOMAIN tasks : ~Ended(t) => tasks[t].pc = "sleeping")

\* C22 witness: worker1 has answered a request and sleeps although another
\* message is pending in its mailbox
C22_Witness ==
    /\ last.op = "iterate" /\ last.agent = "worker1" /\ ~last.exc
    /\ last.ret.message_type = "request" /\ Len(last.sent) = 1
    /\ tasks[2].pc = "sleeping"
    /\ agent_queues["worker1"] # <<>>

\* agent number o has a loop that was started or is to start and has not ended
HasLiveLoop(o) == \E u \in DOMAIN tasks : tasks[u].agent = o /\ ~Ended(u)

\* C23: whenever an agent's loop has exited because of a stop request or
\* because its task was cancelled (and the agent has no other loop), the
\* agent's running flag is false.
C23_RunningIsFalseAfterExit ==
    \A t \in DOMAIN tasks :
       (tasks[t].pc \in {"returned", "cancelled"} /\ ~HasLiveLoop(tasks[t].agent))
          => ~agents[tasks[t].agent].running

\* C24: a dispatch is atomic with respect to the mailboxes: from the dequeue of
\* a message by an agent's loop to the end of its dispatch (the follow-up send
\* included) no other loop receives or sends and nothing else touches a
\* mailbox or a history: the next step that changes anything is the end of
\* that dispatch, which puts the follow-up where a turn made of one piece puts it.
C24_DispatchIsAtomic ==
    [][\A u \in DOMAIN tasks :
          tasks[u].pc = "handling" =>
             /\ tasks'[u].pc # "handling"
             /\ \A t \in DOMAIN tasks \ {u} : tasks'[t] = tasks[t]
             /\ last'.op = "iterate" /\ last'.agent = agents[tasks[u].agent].agent_id
             /\ last'.ref = tasks[u].message
             /\ IF last'.exc \/ last'.ret.message_type \notin {"request", "task_assignment"}
                THEN agent_queues' = agent_queues /\ message_history' = message_history
                ELSE SentOnce(last'.agent, NoRef, message_history, message_history',
                              agent_queues, agent_queues')]_vars

\* C24 witness: worker1 has dequeued a request and not yet answered it while
\* worker2, whose loop is ready to run, has a message waiting
C24_Witness ==
    /\ tasks[2].pc = "handling"
    /\ msgs[tasks[2].message].message_type = "request"
    /\ tasks[3].pc = "sleeping" /\ agents[3].running
    /\ agent_queues["worker2"] # <<>>

\* the mailboxes that hold reference r among the mailboxes q
Holding(q, r) == {a \in DOMAIN q : r \in Range(q[a])}

\* C25: concurrent send_message and register_agent calls are serialized, each
\* taking effect atomically: a broadcast completes without raising, the
\* mailboxes it went to are the agents registered at one single instant (the
\* one before or the one after the registration) other than the sender, and
\* no history entry is lost: a sender that is registered has the message as
\* its newest entry.
C25_SendAndRegisterAreSerialized ==
    [][(last'.op = "send_message" /\ last'.msg.receiver = ALL) =>
          /\ ~last'.exc
          /\ \E registered \in {DOMAIN agent_queues, DOMAIN agent_queues'} :
                Holding(agent_queues', last'.ref) = registered \ {last'.msg.sender}
          /\ last'.msg.sender \in DOMAIN message_history' =>
                /\ message_history'[last'.msg.sender] # <<>>
                /\ Newest(msgs', message_history', last'.msg.sender) = last'.msg]_vars

\* task t is a loop on the mailbox of agent id X that has not ended
BoundTo(t, X) == agents[tasks[t].agent].agent_id = X /\ ~Ended(t)

\* C26: each mailbox has a single consumer, whatever agents are constructed
\* and whatever loops are started: a pop from X's mailbox is made by the one
\* loop bound to X, no other loop being bound to X at that time, and two pops
\* that follow one another on one mailbox are made by the same loop.
C26_SingleConsumerPerMailbox ==
    /\ [][(last'.op = "iterate" /\ last' # last) =>
             \A t \in DOMAIN tasks : BoundTo(t, last'.agent) => t = last'.task]_vars
    /\ [][(last.op = "iterate" /\ last'.op = "iterate" /\ last' # last
              /\ last'.agent = last.agent) => last'.task = last.task]_vars

\* the number of send_message calls on record in the histories h
RECURSIVE TotalSent(_)
TotalSent(h) ==
    IF DOMAIN h = {} THEN 0
    ELSE LET a == CHOOSE a \in DOMAIN h : TRUE
         IN  Len(h[a]) + TotalSent(Restrict(h, DOMAIN h \ {a}))

C28_NoDuplicationNoInvention ==
    /\ [][(last'.op = "receive_message" /\ last'.ref # NoRef) =>
             /\ last'.agent \in DOMAIN arrival
             /\ last'.ref \in Range(arrival[last'.agent])
             /\ OnlyPopped(last'.agent, last'.ref, agent_queues, agent_queues')
             /\ last'.ret = msgs[last'.ref]]_vars
    /\ [](\A X \in DOMAIN agent_queues :
             \A r \in Range(agent_queues[X]) \cup Range(arrival[X]) :
                Count(agent_queues[X], r) = Count(arrival[X], r))

\* C28 witness: one recipient of a broadcast has received it and holds it no
\* more, another recipient has it still pending
C28_Witness ==
    /\ DidReceive /\ last.ref # NoRef
    /\ last.msg.receiver = ALL
    /\ last.ref \notin Range(agent_queues[last.agent])
    /\ \E X \in DOMAIN agent_queues : X # last.agent /\ last.ref \in Range(agent_queues[X])

\* C29: a stop request is never lost: a loop whose agent's running flag was
\* set to False after the loop's task was created and before its first
\* iteration exits without dequeuing or dispatching any message: the first
\* step of such a task is its end, and it leaves every mailbox and every
\* history as it was.
C29_StopBeforeStartIsHonoured ==
    [][\A t \in DOMAIN tasks :
          (tasks[t].pc = "created" /\ tasks[t].stopped /\ tasks'[t] # tasks[t]) =>
             /\ tasks'[t].pc \in {"returned", "cancelled"}
             /\ agent_queues' = agent_queues
             /\ message_history' = message_history]_vars

\* C30: delivery does not depend on the sender being registered: a
\* send_message from an unregistered sender puts one entry into the registered
\* receiver's mailbox or, for "ALL", into the mailbox of every registered
\* agent, raises nothing, and creates no mailbox and no history for the sender:
\* the histories are unchanged.
C30_UnregisteredSenderIsDelivered ==
    [][(last'.op = "send_message" /\ last'.msg.sender \notin DOMAIN agent_queues) =>
          /\ ~last'.exc
          /\ DOMAIN agent_queues' = DOMAIN agent_queues
          /\ message_history' = message_history
          /\ \A a \in DOMAIN agent_queues :
                IF last'.msg.receiver \in {a, ALL}
                THEN /\ Len(agent_queues'[a]) = Len(agent_queues[a]) + 1
                     /\ Count(agent_queues'[a], last'.ref) =
                           Count(agent_queues[a], last'.ref) + 1
                ELSE agent_queues'[a] = agent_queues[a]]_vars

\* C30 witness: an unregistered sender has broadcast to two registered agents,
\* after a direct message of an unregistered sender had reached one of them
C30_Witness ==
    /\ DidSend /\ last.msg.receiver = ALL
    /\ last.msg.sender \notin DOMAIN agent_queues
    /\ Cardinality(DOMAIN agent_queues) = 2
    /\ \A a \in DOMAIN agent_queues : last.ref \in Range(agent_queues[a])
    /\ \E a \in DOMAIN agent_queues : \E r \in Range(agent_queues[a]) :
          msgs[r].receiver = a /\ msgs[r].sender \notin DOMAIN agent_queues
    /\ \A a \in DOMAIN message_history : message_history[a] = <<>>

====
